---- MODULE Spec2Model ----
(***************************************************************************)
(* The Monte Carlo gas-sensor engine of carlo: construction of             *)
(* GasSensorSimulation (NanoFiber, Environment, state and time matrices,   *)
(* the active-gas shortage check), the loop of run, and PostProcess.       *)
(*                                                                         *)
(* Real numbers are rationals <<numerator, denominator>> with a positive   *)
(* denominator; molecule quantities are counted in units of 10^20, so      *)
(* that Avogadro's number and the gas constant keep their digits.  Times   *)
(* are counted in units of 1/TimeUnit so that every distance/speed         *)
(* quotient is an integer.                                                 *)
(***************************************************************************)
EXTENDS Integers, FiniteSets, Sequences, TLC

VARIABLES setup, pc, error, nanofiber, environment, state_mtx, time_mtx,
          iterations, threshold, total_remained, pbar_n, time_current_array,
          postprocess

vars == <<setup, pc, error, nanofiber, environment, state_mtx, time_mtx,
          iterations, threshold, total_remained, pbar_n,
          time_current_array, postprocess>>

(* ------------------------------ bounds -------------------------------- *)

\* iterations of the loop of run that are explored
MaxIter == 3

\* under LiveSpec: iterations of the loop of run that need not deactivate
\* a cell (the iterations that deactivate one are not bounded)
LiveIter == 2

(* --------------------------- rational numbers ------------------------- *)

RatLT(a, b) == a[1] * b[2] < b[1] * a[2]

RatSub(a, b) == <<a[1] * b[2] - b[1] * a[2], a[2] * b[2]>>

\* Python's float // int and int(): floor and truncation of num/den
FloorDiv(num, den) ==
    IF den > 0 THEN num \div den ELSE (0 - num) \div (0 - den)

TruncDiv(num, den) ==
    IF num >= 0 THEN num \div den ELSE 0 - ((0 - num) \div den)

(* ------------------------------ inputs -------------------------------- *)

GridDims == {-1, 0, 1, 2, 3}

Concentrations == {<<-1, 2>>, <<0, 1>>, <<1, 2>>, <<1, 1>>, <<3, 2>>}

Temperatures == {0, 1}

Pressures == {0, 1, 16}

Lengths == {5}

Thresholds == {<<0, 1>>, <<1, 2>>, <<4, 5>>, <<1, 1>>}

\* the arguments of GasSensorSimulation(setup); width, container_volume,
\* max_distance and the three materials are fixed
SimulationSetup ==
    [nano_fiber_width : {1}, nano_fiber_length : Lengths,
     n_x : GridDims, n_y : {1},
     temperature : Temperatures, pressure : Pressures,
     container_volume : {1}, concentration : Concentrations,
     max_distance : {2}]

\* speeds of the velocity tables that have a non-zero probability (the
\* first sample, speed 0, has probability 0 and is never drawn)
ActiveSpeeds == {3, 6}

PassiveSpeeds == {1, 2}

\* the values numpy.random.rand draws from [0, 1)
RandValues == {<<0, 1>>, <<1, 2>>}

\* the least common multiple of the denominators of distance/speed
TimeDenominators ==
    {r[2] * v : r \in RandValues, v \in ActiveSpeeds \cup PassiveSpeeds}

TimeUnit ==
    CHOOSE n \in 1 .. 64 :
        /\ \A d \in TimeDenominators : n % d = 0
        /\ \A m \in 1 .. (n - 1) : \E d \in TimeDenominators : m % d # 0

(* ------------------------- derived quantities ------------------------- *)

R == 8314

NA == 6022

\* sites per unit area of the sensing material
get_surface_carrier_density == 1

\* the quotient rounded up instead of floored
get_cell_carriers_Ceil(width, length, surface_carrier_density, n_y, n_x) ==
    0 - FloorDiv(0 - surface_carrier_density * (width * length), n_x * n_y)

get_cell_carriers(width, length, surface_carrier_density, n_y, n_x) ==
    FloorDiv(surface_carrier_density * (width * length), n_x * n_y)

get_passive_gas_quantity(pressure, temperature, volume) ==
    <<NA * pressure * volume, R * temperature>>

NoObject == [built |-> FALSE]

EmptyMtx == [c \in {} |-> 0]

Cells == DOMAIN state_mtx

(* ---------------------------- construction ---------------------------- *)

NanoFiber_init(s) ==
    IF s.n_x * s.n_y = 0
    THEN [built |-> FALSE, raised |-> "ZeroDivisionError"]
    ELSE [built |-> TRUE, raised |-> "none",
          n_x |-> s.n_x, n_y |-> s.n_y,
          surface_carrier_density |-> get_surface_carrier_density,
          cell_carriers |->
              get_cell_carriers(s.nano_fiber_width, s.nano_fiber_length,
                                get_surface_carrier_density, s.n_y, s.n_x),
          carriers_quantity |->
              (s.nano_fiber_width * s.nano_fiber_length)
                  * get_surface_carrier_density]

Environment_init(s) ==
    IF R * s.temperature = 0
    THEN [built |-> FALSE, raised |-> "ZeroDivisionError"]
    ELSE LET passive == get_passive_gas_quantity(
                            s.pressure, s.temperature, s.container_volume)
         IN [built |-> TRUE, raised |-> "none",
             concentration |-> s.concentration,
             temperature |-> s.temperature,
             max_distance |-> s.max_distance,
             passive_gas_quantity |-> passive,
             active_gas_quantity |->
                 <<passive[1] * s.concentration[1],
                   passive[2] * s.concentration[2]>>]

\* the ratio compared with 0 instead of 1
GasShortage_Zero(env, fiber) ==
    RatLT(<<env.active_gas_quantity[1],
            env.active_gas_quantity[2] * fiber.carriers_quantity>>,
          <<0, 1>>)

\* (active_gas_quantity / carriers_quantity) < 1
GasShortage(env, fiber) ==
    RatLT(<<env.active_gas_quantity[1],
            env.active_gas_quantity[2] * fiber.carriers_quantity>>,
          <<1, 1>>)

GasSensorSimulation_init ==
    /\ pc = "new"
    /\ LET fiber == NanoFiber_init(setup)
           env == Environment_init(setup)
           grid == (1 .. setup.n_y) \X (1 .. setup.n_x)
           outcome ==
               IF ~fiber.built THEN fiber.raised
               ELSE IF ~env.built THEN env.raised
               ELSE IF setup.n_x < 0 \/ setup.n_y < 0 THEN "ValueError"
               ELSE IF GasShortage(env, fiber) THEN "ActiveGasShortage"
               ELSE "none"
       IN /\ nanofiber' = IF fiber.built THEN fiber ELSE NoObject
          /\ environment' =
                 IF fiber.built /\ env.built THEN env ELSE NoObject
          /\ error' = outcome
          /\ pc' = IF outcome = "none" THEN "constructed" ELSE "failed"
          /\ state_mtx' =
                 IF outcome = "none" THEN [c \in grid |-> TRUE] ELSE EmptyMtx
          /\ time_mtx' =
                 IF outcome = "none" THEN [c \in grid |-> 0] ELSE EmptyMtx
          /\ iterations' = 0
    /\ UNCHANGED <<setup, threshold, total_remained, pbar_n,
                   time_current_array, postprocess>>

(* ------------------------------- run ---------------------------------- *)

active_cell_ratio(state) ==
    <<Cardinality({c \in DOMAIN state : state[c]}),
      nanofiber.n_x * nanofiber.n_y>>

\* <= instead of <
is_converged_Inclusive(state, active_cell_ratio_to_converge) ==
    ~RatLT(active_cell_ratio_to_converge, active_cell_ratio(state))

is_converged(state, active_cell_ratio_to_converge) ==
    RatLT(active_cell_ratio(state), active_cell_ratio_to_converge)

get_gasses_probabilities ==
    LET p_active_gas == environment.concentration
        p_passive_gas == RatSub(<<1, 1>>, environment.concentration)
    IN <<p_passive_gas, p_active_gas>>

\* numpy.random.choice rejects a negative probability
ValidProbabilities(p) == \A i \in 1 .. 2 : p[i][1] >= 0

\* the matrices numpy.random.choice([True, False], grid_size, p) can return
get_mixture_mtx ==
    LET binary_values == <<TRUE, FALSE>>
        p == get_gasses_probabilities
    IN [Cells -> {binary_values[i] : i \in {j \in 1 .. 2 : p[j][1] > 0}}]

\* the matrices numpy.random.choice(values, grid_size) and
\* numpy.random.rand(*grid_size) can return; an entry outside `used` never
\* reaches time_mtx (numpy.where discards it, or its product with a false
\* state entry is 0), so it is held at one value
ChoiceMtx(values, used) ==
    LET rest == CHOOSE v \in values : TRUE
    IN {[c \in Cells |-> IF c \in used THEN f[c] ELSE rest] :
            f \in [used -> values]}

np_where(cond, x, y) == [c \in Cells |-> IF cond[c] THEN x[c] ELSE y[c]]

\* numpy.where(mixture_mtx == 1, v_active_mtx, v_passive_mtx): the test of
\* the mixture inverted
SelectSpeeds_Swapped(mixture_mtx, v_active_mtx, v_passive_mtx) ==
    np_where([c \in Cells |-> mixture_mtx[c] = TRUE],
             v_active_mtx, v_passive_mtx)

\* the speed matrix the time update divides by
SelectSpeeds(mixture_mtx, v_active_mtx, v_passive_mtx) ==
    np_where([c \in Cells |-> mixture_mtx[c] = FALSE],
             v_active_mtx, v_passive_mtx)

\* state_mtx = mixture_mtx instead of state_mtx *= mixture_mtx
ApplyMask_Assign(state, mixture_mtx) == mixture_mtx

\* the product never assigned back to state_mtx
ApplyMask_Dropped(state, mixture_mtx) == state

\* state_mtx *= mixture_mtx
ApplyMask(state, mixture_mtx) ==
    [c \in DOMAIN state |-> state[c] /\ mixture_mtx[c]]

\* (distance / v) * state, in units of 1/TimeUnit
TimeIncrement(rand, max_distance, v, state) ==
    IF state THEN (rand[1] * max_distance * TimeUnit) \div (rand[2] * v)
    ELSE 0

\* time_mtx = ... instead of time_mtx += ...
AddTime_Assign(time, rand_mtx, v_mtx, state) ==
    [c \in DOMAIN time |->
        TimeIncrement(rand_mtx[c], environment.max_distance,
                      v_mtx[c], state[c])]

\* time_mtx += (distance_mtx / v_mtx) * state_mtx
AddTime(time, rand_mtx, v_mtx, state) ==
    [c \in DOMAIN time |->
        time[c] + TimeIncrement(rand_mtx[c], environment.max_distance,
                                v_mtx[c], state[c])]

\* the values of time_mtx after update_time_mtx(mixture_mtx), state being
\* the state matrix at the call
update_time_mtx(mixture_mtx, state) ==
    LET to_active == {c \in Cells : state[c] /\ mixture_mtx[c] = FALSE}
        to_passive == {c \in Cells : state[c] /\ mixture_mtx[c] # FALSE}
    IN {AddTime(time_mtx, rand_mtx,
                SelectSpeeds(mixture_mtx, v_active_mtx, v_passive_mtx),
                state) :
           v_active_mtx \in ChoiceMtx(ActiveSpeeds, to_active),
           v_passive_mtx \in ChoiceMtx(PassiveSpeeds, to_passive),
           rand_mtx \in ChoiceMtx(RandValues, to_active \cup to_passive)}

\* update_time_mtx called before state_mtx *= mixture_mtx
StateAtTimeUpdate_Before(before, masked) == before

\* run calls update_time_mtx after state_mtx *= mixture_mtx, so the state
\* that gates the time update is the masked one
StateAtTimeUpdate(before, masked) == masked

\* int((total_remained - remained) * 100 / total_remained) raises when
\* total_remained is 0: the quotient is nan or inf
AdvanceRaises == total_remained[1] = 0

\* int(nan) is a ValueError, int(inf) an OverflowError
AdvanceError(remained) ==
    IF RatSub(total_remained, remained)[1] = 0 THEN "ValueError"
    ELSE "OverflowError"

Advance(remained) ==
    LET diff == RatSub(total_remained, remained)
        num == diff[1] * 100 * total_remained[2]
        den == diff[2] * total_remained[1]
    IN IF den > 0 THEN TruncDiv(num, den) ELSE TruncDiv(0 - num, 0 - den)

\* the entry of run: total_remained, the progress bar and the first loop
\* test; the PostProcess object a caller built before the call, and an
\* array it returned, are dropped
run(active_cell_ratio_to_converge) ==
    /\ pc \in {"constructed", "returned"}
    /\ threshold' = active_cell_ratio_to_converge
    /\ total_remained' =
           RatSub(active_cell_ratio(state_mtx), active_cell_ratio_to_converge)
    /\ pbar_n' = 0
    /\ time_current_array' = <<>>
    /\ postprocess' = NoObject
    /\ pc' = IF is_converged(state_mtx, active_cell_ratio_to_converge)
             THEN "returned" ELSE "running"
    /\ UNCHANGED <<setup, error, nanofiber, environment, state_mtx,
                   time_mtx, iterations>>

\* one pass through the body of the while loop, and the loop test after it;
\* beyond `free` iterations only the passes that deactivate a cell are
\* explored, and only when `beyond` is set
Iterate(free, beyond) ==
    /\ pc = "running"
    /\ IF ~ValidProbabilities(get_gasses_probabilities)
       THEN /\ pc' = "raised"
            /\ error' = "ValueError"
            /\ UNCHANGED <<state_mtx, time_mtx, iterations, pbar_n>>
       ELSE \E mixture_mtx \in get_mixture_mtx :
              LET masked == ApplyMask(state_mtx, mixture_mtx)
                  gate == StateAtTimeUpdate(state_mtx, masked)
                  remained == RatSub(active_cell_ratio(masked), threshold)
                  advance == Advance(remained)
                  n == pbar_n
              IN /\ \/ iterations < free
                    \/ beyond /\ masked # state_mtx
                 /\ state_mtx' = masked
                 /\ time_mtx' \in update_time_mtx(mixture_mtx, gate)
                 /\ iterations' = iterations + 1
                 /\ IF AdvanceRaises
                    THEN /\ pc' = "raised"
                         /\ error' = AdvanceError(remained)
                         /\ pbar_n' = pbar_n
                    ELSE /\ pc' = IF is_converged(masked, threshold)
                                  THEN "returned" ELSE "running"
                         /\ error' = error
                         /\ pbar_n' =
                                n + (IF advance - n - 1 > 0
                                     THEN advance - n - 1 ELSE 0)
    /\ UNCHANGED <<setup, nanofiber, environment, threshold,
                   total_remained, time_current_array, postprocess>>

(* ---------------------------- PostProcess ----------------------------- *)

Range(f) == {f[c] : c \in DOMAIN f}

RECURSIVE Ascending(_)
Ascending(values) ==
    IF values = {} THEN <<>>
    ELSE LET least == CHOOSE v \in values : \A w \in values : v <= w
         IN <<least>> \o Ascending(values \ {least})

\* time_mtx.flatten() alone: the values in row-major order, repeated
np_unique_Flat(time) ==
    [k \in 1 .. (nanofiber.n_y * nanofiber.n_x) |->
        time[<<((k - 1) \div nanofiber.n_x) + 1,
               ((k - 1) % nanofiber.n_x) + 1>>]]

\* numpy.unique(time_mtx.flatten()): the distinct values, ascending
np_unique(time) == Ascending(Range(time))

\* numpy.where(time_mtx < t, state_mtx, 1): the cells whose time equals t
\* taken as still active
StepState_Strict(t) ==
    [c \in Cells |-> IF time_mtx[c] < t THEN state_mtx[c] ELSE TRUE]

\* numpy.where(time_mtx <= t, state_mtx, 1)
StepState(t) ==
    [c \in Cells |-> IF time_mtx[c] <= t THEN state_mtx[c] ELSE TRUE]

get_state_generator ==
    LET flat_time_mtx == np_unique(time_mtx)
    IN [i \in 1 .. Len(flat_time_mtx) |->
           <<flat_time_mtx[i], StepState(flat_time_mtx[i])>>]

\* the current in units of the elementary charge Q_E
get_current_from_state(state) ==
    LET n_e == nanofiber.n_y * nanofiber.n_x
                 - Cardinality({c \in DOMAIN state : state[c]})
    IN n_e * nanofiber.cell_carriers

\* the pairs <<t, current>> of the array get_time_current_array returns,
\* column by column
TimeCurrentArray ==
    LET state_generator == get_state_generator
    IN [i \in 1 .. Len(state_generator) |->
           <<state_generator[i][1],
             get_current_from_state(state_generator[i][2])>>]

\* GasSensorSimulation.maximum_current, in units of Q_E
maximum_current == nanofiber.carriers_quantity

\* time_current_array[:, 0]
LastColumn_First(array) == array[1]

\* time_current_array[:, -1]
LastColumn(array) == array[Len(array)]

\* what numpy's float arithmetic makes of (-1 / t) * log(arg), arg being
\* num / den: a division by zero gives an infinity or nan and the
\* logarithm of 0 or of a negative number gives -inf or nan, all with a
\* warning and without an exception
FloatValue(t, num, den) ==
    IF den = 0 \/ num * den < 0 THEN "nan"
    ELSE IF num = 0 THEN "inf"
    ELSE IF t # 0 THEN "finite"
    ELSE IF num = den THEN "nan"
    ELSE IF num < den THEN "inf"
    ELSE "-inf"

\* (a - i) / a
LogArgument(a, i) == <<a - i, a>>

\* b = (-1 / t) * log((a - i) / a), t and i the last column of the array;
\* the logarithm is kept as its argument
calculate_b(a) ==
    LET column == LastColumn(TimeCurrentArray)
        t == column[1]
        i == column[2]
    IN [t |-> t, arg |-> LogArgument(a, i),
        value |-> FloatValue(t, a - i, a)]

CurrentEstimator_init ==
    [a |-> maximum_current, b |-> calculate_b(maximum_current)]

\* PostProcess(simulation_obj), on an engine whose run is not executing
PostProcess_init ==
    /\ pc \in {"constructed", "returned", "raised"}
    /\ postprocess' =
           [built |-> TRUE, current_estimator |-> CurrentEstimator_init]
    /\ UNCHANGED <<setup, pc, error, nanofiber, environment, state_mtx,
                   time_mtx, iterations, threshold, total_remained, pbar_n,
                   time_current_array>>

\* PostProcess.get_time_current_array, on a PostProcess object built since
\* the last run
get_time_current_array ==
    /\ pc \in {"constructed", "returned", "raised"}
    /\ postprocess.built
    /\ time_current_array' = TimeCurrentArray
    /\ UNCHANGED <<setup, pc, error, nanofiber, environment, state_mtx,
                   time_mtx, iterations, threshold, total_remained, pbar_n,
                   postprocess>>

(* --------------------------- specifications --------------------------- *)

Init ==
    /\ setup \in SimulationSetup
    /\ pc = "new"
    /\ error = "none"
    /\ nanofiber = NoObject
    /\ environment = NoObject
    /\ state_mtx = EmptyMtx
    /\ time_mtx = EmptyMtx
    /\ iterations = 0
    /\ threshold = <<0, 1>>
    /\ total_remained = <<0, 1>>
    /\ pbar_n = 0
    /\ time_current_array = <<>>
    /\ postprocess = NoObject

Next ==
    \/ GasSensorSimulation_init
    \/ \E t \in Thresholds : run(t)
    \/ Iterate(MaxIter, FALSE)
    \/ PostProcess_init
    \/ get_time_current_array

Spec == Init /\ [][Next]_vars

\* the iterations of run in which a still-active cell is drawn
\* active-exposed
Deactivate ==
    /\ Iterate(LiveIter, TRUE)
    /\ state_mtx' # state_mtx

\* the thresholds strictly between 0 and 1
OpenThresholds ==
    {t \in Thresholds : RatLT(<<0, 1>>, t) /\ RatLT(t, <<1, 1>>)}

\* construction and run alone, run with a threshold in (0,1) and without
\* the bound on its iterations
LiveNext ==
    \/ GasSensorSimulation_init
    \/ \E t \in OpenThresholds : run(t)
    \/ Iterate(LiveIter, TRUE)

\* while cells are active, one of them is eventually drawn active-exposed
LiveSpec == Init /\ [][LiveNext]_vars /\ WF_vars(Deactivate)

(* ------------------------------ properties ---------------------------- *)

EngineExists == pc \in {"constructed", "running", "returned", "raised"}

ActiveCells == {c \in Cells : state_mtx[c]}

InactiveCells == {c \in Cells : ~state_mtx[c]}

\* the matrices and the ratio after a step, for the action properties
ActiveCellsNext == {c \in DOMAIN state_mtx' : state_mtx'[c]}

\* C1: in every iteration of run a cell of state_mtx can only go from true
\* to false, never from false to true, and active_cell_ratio after the
\* iteration is not greater than before it.
C1_StateMonotone ==
    [][pc = "running" =>
         /\ DOMAIN state_mtx' = DOMAIN state_mtx
         /\ \A c \in Cells : state_mtx'[c] => state_mtx[c]
         /\ Cardinality(ActiveCellsNext) <= Cardinality(ActiveCells)]_vars

\* an iteration has deactivated a cell while another cell is still active
C1_Witness ==
    /\ pc = "running"
    /\ iterations >= 1
    /\ ActiveCells # {}
    /\ InactiveCells # {}

\* C2: the loop of run continues exactly while active_cell_ratio >=
\* threshold: when run has returned the ratio is below the threshold, while
\* the loop is running it is not, and a call of run on an engine whose
\* ratio is already below the threshold returns without an iteration
\* (state_mtx, time_mtx and iterations unchanged).
C2_LoopWhileNotConverged ==
    /\ [](pc = "returned" =>
            RatLT(active_cell_ratio(state_mtx), threshold))
    /\ [](pc = "running" =>
            ~RatLT(active_cell_ratio(state_mtx), threshold))
    /\ [][\A t \in Thresholds :
            (run(t) /\ RatLT(active_cell_ratio(state_mtx), t)) =>
                /\ pc' = "returned"
                /\ UNCHANGED <<state_mtx, time_mtx, iterations>>]_vars

\* run has returned after iterating, with the ratio below the threshold
C2_Witness ==
    /\ pc = "returned"
    /\ iterations >= 2
    /\ ActiveCells # {}
    /\ RatLT(active_cell_ratio(state_mtx), threshold)

Concentration == setup.concentration

RatEq(a, b) == a[1] * b[2] = b[1] * a[2]

\* a run entered with every cell active: the engine as constructed
EnteredAllActive ==
    /\ pc \in {"running", "returned", "raised"}
    /\ RatEq(total_remained, RatSub(<<1, 1>>, threshold))

C3_Case ==
    /\ EnteredAllActive
    /\ RatLT(<<0, 1>>, Concentration) /\ RatLT(Concentration, <<1, 1>>)
    /\ RatLT(<<0, 1>>, threshold) /\ RatLT(threshold, <<1, 1>>)

\* C3: for a constructed engine with 0 < concentration < 1 and a threshold
\* in (0,1), run on it eventually returns, given that every still-active
\* cell is eventually drawn active-exposed, and on return
\* active_cell_ratio < threshold.
C3_RunTerminates ==
    /\ [](C3_Case => <>(pc = "returned"))
    /\ [](C3_Case /\ pc = "returned" =>
            RatLT(active_cell_ratio(state_mtx), threshold))

\* such a run on a grid of several cells has returned after more
\* iterations than LiveIter
C3_Witness ==
    /\ C3_Case
    /\ pc = "returned"
    /\ Cardinality(Cells) > 2
    /\ iterations > LiveIter

\* C4 (as claimed): with concentration = 1.0 and 0 < threshold <= 1, the
\* first iteration of run on the constructed engine deactivates every cell
\* and run returns with iterations = 1.
C4_OneIterationReturns ==
    (/\ EnteredAllActive
     /\ Concentration = <<1, 1>>
     /\ RatLT(<<0, 1>>, threshold) /\ ~RatLT(<<1, 1>>, threshold)
     /\ iterations >= 1)
    => (iterations = 1 /\ ActiveCells = {} /\ pc = "returned")

ValidGrid == setup.n_x >= 1 /\ setup.n_y >= 1

ValidPhysics ==
    setup.temperature > 0 /\ setup.pressure > 0 /\ setup.container_volume > 0

ValidConcentration ==
    ~RatLT(Concentration, <<0, 1>>) /\ ~RatLT(<<1, 1>>, Concentration)

InvalidConfiguration == ~(ValidGrid /\ ValidPhysics /\ ValidConcentration)

\* C5 (as claimed): an engine with concentration 0 is constructed, and no
\* state of it has a deactivated cell.
C5_ZeroConcentrationEngine ==
    (Concentration[1] = 0 /\ ~InvalidConfiguration /\ pc # "new")
    => (EngineExists /\ InactiveCells = {})

\* C5 (amended): with concentration 0 construction always fails, for a
\* buildable grid and environment with the active-gas-shortage error, so
\* run is never entered and no state has an iteration or a matrix.
C5_ZeroConcentrationRejected ==
    (Concentration[1] = 0 /\ pc # "new")
    => /\ pc = "failed"
       /\ iterations = 0
       /\ state_mtx = EmptyMtx
       /\ (ValidGrid /\ setup.temperature > 0 =>
              error = "ActiveGasShortage")

\* construction with concentration 0 has raised the shortage error
C5_Witness ==
    /\ Concentration[1] = 0
    /\ ~InvalidConfiguration
    /\ pc = "failed"
    /\ error = "ActiveGasShortage"

\* active_gas_quantity / carriers_quantity < 1, from the arguments:
\* NA*P*V/(R*T) * concentration against width*length*density
SetupRatioBelowOne ==
    NA * setup.pressure * setup.container_volume * Concentration[1]
      < R * setup.temperature * Concentration[2]
          * (setup.nano_fiber_width * setup.nano_fiber_length
               * get_surface_carrier_density)

\* C6: construction raises the active-gas-shortage error if and only if
\* active_gas_quantity / carriers_quantity < 1 (the grid and the
\* environment being buildable), and it does so before any iteration: no
\* engine exists, and no iteration has run, when the ratio is below 1.
C6_ShortageCheck ==
    (pc # "new" /\ ValidGrid /\ setup.temperature > 0)
    => /\ (pc = "failed" /\ error = "ActiveGasShortage")
              <=> SetupRatioBelowOne
       /\ EngineExists <=> ~SetupRatioBelowOne
       /\ SetupRatioBelowOne => iterations = 0 /\ state_mtx = EmptyMtx

\* construction has raised the shortage error for a positive concentration
C6_Witness ==
    /\ pc = "failed"
    /\ error = "ActiveGasShortage"
    /\ ~InvalidConfiguration
    /\ Concentration[1] > 0

\* C7 (as claimed): for an invalid configuration no NanoFiber, Environment
\* or engine object exists.
C7_InvalidRejected ==
    (InvalidConfiguration /\ pc # "new")
    => (~nanofiber.built /\ ~environment.built /\ ~EngineExists)

\* C8: every entry of time_mtx starts at 0, is never negative, and is never
\* smaller after an iteration of run than before it.
C8_TimeMonotone ==
    /\ [](\A c \in DOMAIN time_mtx : time_mtx[c] >= 0)
    /\ [](pc = "constructed" /\ iterations = 0 =>
            \A c \in DOMAIN time_mtx : time_mtx[c] = 0)
    /\ [][pc = "running" =>
            \A c \in DOMAIN time_mtx : time_mtx'[c] >= time_mtx[c]]_vars

\* a still-active cell holds more time than one iteration can add
C8_Witness ==
    /\ iterations >= 2
    /\ \E c \in ActiveCells : time_mtx[c] > environment.max_distance * TimeUnit

Curve == time_current_array

\* C9: get_time_current_array returns one pair per distinct value of
\* time_mtx, the times strictly ascending, at most n_x*n_y pairs, the
\* currents non-decreasing along the sequence.
C9_CurveOrdered ==
    (EngineExists /\ Curve # <<>>)
    => /\ {Curve[i][1] : i \in 1 .. Len(Curve)} = Range(time_mtx)
       /\ Len(Curve) = Cardinality(Range(time_mtx))
       /\ Len(Curve) <= nanofiber.n_x * nanofiber.n_y
       /\ \A i \in 1 .. (Len(Curve) - 1) :
              /\ Curve[i][1] < Curve[i + 1][1]
              /\ Curve[i][2] <= Curve[i + 1][2]

\* a curve of several pairs whose current rises, from fewer distinct times
\* than cells
C9_Witness ==
    /\ EngineExists
    /\ Len(Curve) >= 2
    /\ Len(Curve) < Cardinality(Cells)
    /\ Curve[1][2] < Curve[Len(Curve)][2]

\* C10: an iteration leaves time_mtx unchanged in every cell whose
\* state_mtx entry is false after its mask, whether the cell was
\* deactivated in this iteration or earlier; a cell deactivated in the
\* first iteration keeps time 0.
C10_MaskThenGate ==
    /\ [][pc = "running" =>
            \A c \in Cells :
                ~state_mtx'[c] => time_mtx'[c] = time_mtx[c]]_vars
    /\ [](iterations = 1 => \A c \in InactiveCells : time_mtx[c] = 0)

\* a cell deactivated after the first iteration, its time frozen above 0,
\* beside a cell deactivated with time 0
C10_Witness ==
    /\ \E c \in InactiveCells : time_mtx[c] > 0
    /\ \E c \in InactiveCells : time_mtx[c] = 0

\* the cells PostProcess takes as active at time t
ActiveCountAt(t) == Cardinality({c \in Cells : time_mtx[c] > t \/ state_mtx[c]})

\* C11: for every distinct time t of time_mtx, the current in the curve is
\* (n_x*n_y - active_count(t)) * elementary_charge * cell_carriers, where
\* active_count(t) counts the cells with time_mtx > t or state_mtx true;
\* the cells counted for the current are exactly those inactive in the
\* final state_mtx with time_mtx <= t (currents in units of the elementary
\* charge).
C11_CurrentFormula ==
    (EngineExists /\ Curve # <<>>)
    => /\ \A t \in Range(time_mtx) :
              \E i \in 1 .. Len(Curve) : Curve[i][1] = t
       /\ \A i \in 1 .. Len(Curve) :
              LET t == Curve[i][1]
              IN /\ Curve[i][2] =
                        (nanofiber.n_x * nanofiber.n_y - ActiveCountAt(t))
                          * nanofiber.cell_carriers
                 /\ Curve[i][2] =
                        Cardinality({c \in InactiveCells : time_mtx[c] <= t})
                          * nanofiber.cell_carriers

\* a curve with a pair at which one inactive cell is counted, another
\* inactive cell is not yet, and an active cell has time at most t
C11_Witness ==
    /\ EngineExists
    /\ \E i \in 1 .. Len(Curve) :
           /\ Curve[i][2] > 0
           /\ \E c \in InactiveCells : time_mtx[c] > Curve[i][1]
           /\ \E c \in ActiveCells : time_mtx[c] <= Curve[i][1]

\* C12 (as claimed): the progress computation of run is observational: an
\* iteration whose mixture draw succeeds never raises, and it ends the way
\* the loop test alone decides, returned when the ratio is below the
\* threshold and running otherwise, for every state and threshold on which
\* run is called.
C12_ProgressObservational ==
    [][(pc = "running" /\ ValidProbabilities(get_gasses_probabilities)) =>
          /\ error' = error
          /\ pc' = IF is_converged(state_mtx', threshold)
                   THEN "returned" ELSE "running"]_vars

Estimator == postprocess.current_estimator

\* the largest entry of time_mtx
LargestTime == CHOOSE t \in Range(time_mtx) : \A u \in Range(time_mtx) : u <= t

\* C13: CurrentEstimator takes I_max = maximum_current unchanged and
\* computes b from the last, largest-t pair of the curve alone, as
\* -(1/t_last) * ln((I_max - I_last) / I_max) (I_max = 10 and the last pair
\* (5, 6) give the logarithm's argument 0.4 and a finite b); b is not a
\* finite number when t_last = 0 or I_last >= I_max, and the construction
\* of PostProcess and CurrentEstimator succeeds on every engine whose run
\* is not executing, such a curve included.
C13_EstimatorFromLastPair ==
    /\ [](postprocess.built =>
            LET I_max == nanofiber.carriers_quantity
                t_last == LargestTime
                I_last == Cardinality(InactiveCells) * nanofiber.cell_carriers
            IN /\ Estimator.a = I_max
               /\ Estimator.b.t = t_last
               /\ RatEq(Estimator.b.arg, <<I_max - I_last, I_max>>)
               /\ (t_last = 0 \/ I_last >= I_max)
                      => Estimator.b.value # "finite")
    /\ [](/\ RatEq(LogArgument(10, 6), <<2, 5>>)
          /\ FloatValue(5, 10 - 6, 10) = "finite")
    /\ [][(pc \in {"constructed", "returned", "raised"} /\ PostProcess_init)
            => (postprocess'.built /\ error' = error /\ pc' = pc)]_vars

\* an estimator built on a curve whose last pair has a time above 0 and
\* the maximum current: b is infinite
C13_Witness ==
    /\ postprocess.built
    /\ Estimator.b.t > 0
    /\ Estimator.b.arg[1] = 0
    /\ Estimator.b.value = "inf"

\* the times one iteration can add to a cell from a passive-species speed
PassiveIncrements ==
    {TimeIncrement(r, environment.max_distance, v, TRUE) :
        r \in RandValues, v \in PassiveSpeeds}

\* the draws of the active-species speeds that differ from one another on
\* the cells of `live` or on all the other cells
ActiveDraws(live) ==
    {[c \in Cells |-> IF c \in live THEN v ELSE w] :
        v \in ActiveSpeeds, w \in ActiveSpeeds}

\* one draw of the active-species speeds, to compare every other draw with
ReferenceActiveSpeeds == [c \in Cells |-> CHOOSE v \in ActiveSpeeds : TRUE]

\* C14: every non-zero increment an iteration adds to time_mtx comes from
\* a speed of the passive species; for every mixture an iteration can
\* draw, a cell still active after the mask has mixture true, and for
\* fixed mixture, passive-speed and distance draws the new time_mtx is the
\* same whatever speeds are drawn for the active species, so runs that
\* differ only in the active species proceed through the same state_mtx,
\* time_mtx and iterations.
C14_ActiveSpeedsUnused ==
    /\ [][pc = "running" =>
            \A c \in Cells :
                time_mtx'[c] # time_mtx[c] =>
                    (time_mtx'[c] - time_mtx[c]) \in PassiveIncrements]_vars
    /\ []((pc = "running" /\ ValidProbabilities(get_gasses_probabilities)) =>
            \A mixture_mtx \in get_mixture_mtx :
                LET masked == ApplyMask(state_mtx, mixture_mtx)
                    gate == StateAtTimeUpdate(state_mtx, masked)
                    live == {c \in Cells : masked[c]}
                IN /\ \A c \in live : mixture_mtx[c]
                   /\ \A v_passive_mtx \in ChoiceMtx(PassiveSpeeds, live),
                         rand_mtx \in ChoiceMtx(RandValues, live),
                         v_active_mtx \in ActiveDraws(live) :
                          AddTime(time_mtx, rand_mtx,
                                  SelectSpeeds(mixture_mtx, v_active_mtx,
                                               v_passive_mtx), gate)
                          = AddTime(time_mtx, rand_mtx,
                                    SelectSpeeds(mixture_mtx,
                                                 ReferenceActiveSpeeds,
                                                 v_passive_mtx), gate))

\* the first iteration has added a passive-speed time to a cell it left
\* active and has deactivated another cell
C14_Witness ==
    /\ pc = "running"
    /\ iterations = 1
    /\ InactiveCells # {}
    /\ \E c \in ActiveCells :
           time_mtx[c] > 0 /\ time_mtx[c] \in PassiveIncrements

\* C15: every current of the curve satisfies 0 <= I(t) <= maximum_current,
\* cell_carriers being floor(carriers_quantity / (n_x*n_y)) and at most
\* n_x*n_y cells being counted; the current of the last pair is the number
\* of false cells of state_mtx times cell_carriers, and it equals
\* maximum_current only if every cell is inactive and carriers_quantity is
\* an exact multiple of n_x*n_y (currents in units of the elementary
\* charge).
C15_CurrentBounded ==
    (EngineExists /\ Curve # <<>>)
    => LET n == nanofiber.n_x * nanofiber.n_y
           I_max == nanofiber.carriers_quantity
           I_last == Curve[Len(Curve)][2]
       IN /\ nanofiber.cell_carriers * n <= I_max
          /\ I_max < (nanofiber.cell_carriers + 1) * n
          /\ \A i \in 1 .. Len(Curve) :
                 0 <= Curve[i][2] /\ Curve[i][2] <= I_max
          /\ I_last = Cardinality(InactiveCells) * nanofiber.cell_carriers
          /\ I_last = I_max => (ActiveCells = {} /\ I_max % n = 0)

\* a curve of an engine with every cell inactive whose last current stays
\* below the maximum current: carriers_quantity is no multiple of the
\* number of cells
C15_Witness ==
    /\ EngineExists
    /\ Len(Curve) >= 2
    /\ ActiveCells = {}
    /\ Curve[Len(Curve)][2] > 0
    /\ Curve[Len(Curve)][2] < nanofiber.carriers_quantity

====
